---------------------------- MODULE Spec2Model ----------------------------
(***************************************************************************)
(* Scrapbox-Duplicator: the incremental, batched duplication of the pages  *)
(* of one project into another (src/index.ts, mainEffect; src/pages.ts).   *)
(*                                                                         *)
(* One run of the program is modelled step by step, one action per         *)
(* suspension point of mainEffect (a yield* on an effect that does I/O).   *)
(* The synchronous code between two suspension points belongs to the       *)
(* action of the first.  last_import.txt and the exporting project outlive *)
(* a run; runs follow one another and never overlap.                       *)
(***************************************************************************)
EXTENDS Integers, Sequences, FiniteSets, TLC

VARIABLES
    file,            \* last_import.txt: [exists, content], content a text
    source,          \* the pages of the exporting project
    runs,            \* runs started so far
    pc,              \* where the current run stands
    environ,         \* the environment variables of the run
    config,          \* what getConfigEffect returned
    pages,           \* what exportPagesFromProject returned
    filteredPages,   \* mainEffect's filteredPages
    lastImportTime,  \* mainEffect's lastImportTime, a number or NaN
    newPages,        \* mainEffect's newPages
    batches,         \* processBatchesEffect's batches
    i,               \* processBatchesEffect's loop index (0-based)
    calls,           \* the importPages calls of this run, in the order issued
    trace,           \* the import calls and sleeps of this run, by size and time
    outcome,         \* "none" | "success" | "failure"
    error,           \* the failure's _tag, "" when there is none
    failure,         \* the failure value that reaches main's catchAll
    fileAtStart,     \* history: last_import.txt when the run started
    fileAfterRead,   \* history: last_import.txt when getLastImportTimeEffect ended
    writes,          \* history: the checkpoint writes of this run that succeeded
    prev,            \* history: the run before this one
    imported,        \* history: the pages of every import that succeeded
    items,           \* processBatchesEffect called on its own: items
    batchSize,       \* processBatchesEffect called on its own: batchSize
    result,          \* processBatchesEffect called on its own: what it did
    fnPages,         \* the filters called on their own: the pages
    fnSince,         \* the filters called on their own: the checkpoint
    fnSelected,      \* the filters called on their own: the pages selected
    fnFiltered       \* the filters called on their own: the pages kept

runVars == <<pc, environ, config, pages, filteredPages, lastImportTime, newPages,
             batches, i, calls, trace, outcome, error, failure>>
histVars == <<fileAtStart, fileAfterRead, writes, prev, imported>>
fnVars == <<items, batchSize, result, fnPages, fnSince, fnSelected, fnFiltered>>
vars == <<file, source, runs, runVars, histVars, fnVars>>

---------------------------------------------------------------------------
(* Bounds of the model. *)

MaxRuns == 2
BigLen == 250
MixedLen == 202
MaxItems == 4
MaxBatchSize == 3
MaxPages == 3
MaxEdited == 4

---------------------------------------------------------------------------
(* Program constants. *)

INITIAL_IMPORT_TIME == 1745842021
BATCH_SIZE == 100
SLEEP_SECONDS == 1

\* '[private.icon]', one character per element
PRIVATE_ICON ==
    <<"[", "p", "r", "i", "v", "a", "t", "e", ".", "i", "c", "o", "n", "]">>

---------------------------------------------------------------------------
(* Numbers and text.  A JavaScript number is an integer or NaN here.       *)

Num(n) == [kind |-> "int", val |-> n]
NaN == [kind |-> "NaN", val |-> 0]
NegInfinity == [kind |-> "-Infinity", val |-> 0]
\* a variable that holds no number yet
Undefined == [kind |-> "undefined", val |-> 0]

Digits == <<"0", "1", "2", "3", "4", "5", "6", "7", "8", "9">>
IsDigit(c) == \E d \in 1..10 : Digits[d] = c
DigitVal(c) == (CHOOSE d \in 1..10 : Digits[d] = c) - 1
WhiteSpace == {" ", "\n", "\t"}

\* Number.prototype.toString(): the decimal digits, '-' first when negative
RECURSIVE NatToString(_)
NatToString(n) ==
    IF n < 10 THEN <<Digits[n + 1]>>
    ELSE NatToString(n \div 10) \o <<Digits[(n % 10) + 1]>>

IntToString(n) == IF n < 0 THEN <<"-">> \o NatToString(-n) ELSE NatToString(n)

toString(x) ==
    CASE x.kind = "int" -> IntToString(x.val)
      [] x.kind = "NaN" -> <<"N", "a", "N">>
      [] x.kind = "-Infinity" -> <<"-", "I", "n", "f", "i", "n", "i", "t", "y">>

\* the text without its leading white space
RECURSIVE TrimStart(_)
TrimStart(s) ==
    IF s # <<>> /\ Head(s) \in WhiteSpace THEN TrimStart(Tail(s)) ELSE s

\* the longest prefix of digits
RECURSIVE DigitPrefix(_)
DigitPrefix(s) ==
    IF s # <<>> /\ IsDigit(Head(s)) THEN <<Head(s)>> \o DigitPrefix(Tail(s))
    ELSE <<>>

RECURSIVE DigitsValue(_)
DigitsValue(ds) ==
    IF ds = <<>> THEN 0
    ELSE 10 * DigitsValue(SubSeq(ds, 1, Len(ds) - 1)) + DigitVal(ds[Len(ds)])

\* parseInt(content, 10): white space, a sign, then digits; NaN without a digit
parseInt(content) ==
    LET s == TrimStart(content)
        neg == s # <<>> /\ Head(s) = "-"
        signed == s # <<>> /\ Head(s) \in {"-", "+"}
        ds == DigitPrefix(IF signed THEN Tail(s) ELSE s)
    IN  IF ds = <<>> THEN NaN
        ELSE Num(IF neg THEN -DigitsValue(ds) ELSE DigitsValue(ds))

\* GreaterThan with >= for >
GreaterOrEqual(a, b) ==
    \/ b.kind = "-Infinity"
    \/ b.kind = "int" /\ a >= b.val

\* a > b of two JavaScript numbers, a an integer: false when b is NaN
GreaterThan(a, b) ==
    \/ b.kind = "-Infinity"
    \/ b.kind = "int" /\ a > b.val

\* includes that looks for part at the start of text only
startsWith(text, part) ==
    Len(part) <= Len(text) /\ SubSeq(text, 1, Len(part)) = part

\* String.prototype.includes
includes(text, part) ==
    \E k \in 0..(Len(text) - Len(part)) :
        SubSeq(text, k + 1, k + Len(part)) = part

\* MathMax that takes the last element for the greatest
MathLast(xs) == IF xs = <<>> THEN NegInfinity ELSE Num(xs[Len(xs)])

\* Math.max(...xs) of a sequence of integers: -Infinity without an argument
MathMax(xs) ==
    IF xs = <<>> THEN NegInfinity
    ELSE Num(CHOOSE m \in {xs[k] : k \in 1..Len(xs)} :
                 \A k \in 1..Len(xs) : xs[k] <= m)

Min(a, b) == IF a < b THEN a ELSE b

---------------------------------------------------------------------------
(* The pure functions of the pipeline. *)

isIncludedIcon(icon, lines) ==
    \E k \in 1..Len(lines) : includes(lines[k].text, icon)

IsPrivate(p) == isIncludedIcon(PRIVATE_ICON, p.lines)

\* filterPrivateIconPages that keeps every page
filterNothing(ps) == ps

\* pages.filter(p => !isIncludedIcon('[private.icon]')(p.lines)): the pages
\* that are not private, in their order (the sequence is halved rather than
\* walked so that the evaluation stays shallow)
RECURSIVE filterPrivateIconPages(_)
filterPrivateIconPages(ps) ==
    IF ps = <<>> THEN <<>>
    ELSE IF Len(ps) = 1 THEN (IF IsPrivate(ps[1]) THEN <<>> ELSE ps)
    ELSE filterPrivateIconPages(SubSeq(ps, 1, Len(ps) \div 2))
         \o filterPrivateIconPages(SubSeq(ps, Len(ps) \div 2 + 1, Len(ps)))

\* selectNewPages that selects every page, whatever the checkpoint
selectEveryPage(ps, since) == ps

\* selectNewPages that yields the pages of the second half first
RECURSIVE selectNewPagesSwapped(_, _)
selectNewPagesSwapped(ps, since) ==
    IF ps = <<>> THEN <<>>
    ELSE IF Len(ps) = 1
    THEN (IF GreaterThan(ps[1].updated, since) THEN ps ELSE <<>>)
    ELSE selectNewPagesSwapped(SubSeq(ps, Len(ps) \div 2 + 1, Len(ps)), since)
         \o selectNewPagesSwapped(SubSeq(ps, 1, Len(ps) \div 2), since)

\* filteredPages.filter(p => p.updated > lastImportTime)
RECURSIVE selectNewPages(_, _)
selectNewPages(ps, since) ==
    IF ps = <<>> THEN <<>>
    ELSE IF Len(ps) = 1
    THEN (IF GreaterThan(ps[1].updated, since) THEN ps ELSE <<>>)
    ELSE selectNewPages(SubSeq(ps, 1, Len(ps) \div 2), since)
         \o selectNewPages(SubSeq(ps, Len(ps) \div 2 + 1, Len(ps)), since)

\* Math.ceil(n / size) for n >= 0 and size > 0
CeilDiv(n, size) == (n + size - 1) \div size

\* Array.prototype.slice(from, to) on 0-based positions, to clamped to the length
slice(xs, from, to) == SubSeq(xs, from + 1, Min(to, Len(xs)))

\* Array.from({ length: Math.ceil(n / size) }, ...) throws a RangeError:
\* n / 0 is Infinity for n > 0, which is no array length
arrayLengthThrows(n, size) == size = 0 /\ n > 0

\* the length of Array.from({ length: Math.ceil(n / size) }, ...) when it
\* does not throw: a negative length, -0 and the NaN of 0 / 0 count as 0
batchCount(n, size) == IF size > 0 THEN CeilDiv(n, size) ELSE 0

\* makeBatches with Math.floor for Math.ceil
makeBatchesFloor(xs, size) ==
    [b \in 1..(IF size > 0 THEN Len(xs) \div size ELSE 0) |->
        slice(xs, (b - 1) * size, b * size)]

\* processBatchesEffect's batches
makeBatches(xs, size) ==
    [b \in 1..batchCount(Len(xs), size) |->
        slice(xs, (b - 1) * size, b * size)]

\* the items of the batches the for loop hands to processFunc, in order
RECURSIVE passedItems(_)
passedItems(bs) ==
    IF bs = <<>> THEN <<>> ELSE Head(bs) \o passedItems(Tail(bs))

updatedOf(ps) == [k \in 1..Len(ps) |-> ps[k].updated]

---------------------------------------------------------------------------
(* The inputs: texts, pages, the exporting project, last_import.txt, the   *)
(* environment.                                                            *)

Line(text) == [text |-> text]
Page(title, updated, lines) ==
    [title |-> title, updated |-> updated, lines |-> lines]

TextPlain == <<"h", "i">>
TextIconInside == <<"x", " ">> \o PRIVATE_ICON \o <<"y">>
\* '[private.icon' without its closing bracket
TextAlmostIcon == SubSeq(PRIVATE_ICON, 1, Len(PRIVATE_ICON) - 1) \o <<"!">>

PlainLines == <<Line(TextPlain)>>

\* A older than the default checkpoint, B newer, C newest and private
SnapScenario ==
    << Page(1, INITIAL_IMPORT_TIME - 1, PlainLines),
       Page(2, INITIAL_IMPORT_TIME + 1, PlainLines),
       Page(3, 1745900000, <<Line(PRIVATE_ICON)>>) >>

\* a page updated exactly at the default checkpoint, a private page whose
\* icon is inside its second line, a page that only nearly holds the icon,
\* a page without lines
SnapEdges ==
    << Page(4, INITIAL_IMPORT_TIME, PlainLines),
       Page(5, INITIAL_IMPORT_TIME + 5, <<Line(TextPlain), Line(TextIconInside)>>),
       Page(6, INITIAL_IMPORT_TIME + 3, <<Line(TextAlmostIcon)>>),
       Page(7, INITIAL_IMPORT_TIME + 2, <<>>) >>

\* BigLen pages, all newer than the default checkpoint
SnapBig ==
    [k \in 1..BigLen |-> Page(100 + k, INITIAL_IMPORT_TIME + k, PlainLines)]

\* the first page not newer than the default checkpoint, the last private
\* and newest, the others new
SnapMixed ==
    [k \in 1..MixedLen |->
        IF k = 1 THEN Page(1000, INITIAL_IMPORT_TIME, PlainLines)
        ELSE IF k = MixedLen
        THEN Page(1000 + k, INITIAL_IMPORT_TIME + 1000, <<Line(TextIconInside)>>)
        ELSE Page(1000 + k, INITIAL_IMPORT_TIME + k, PlainLines)]

Snapshots == {<<>>, SnapScenario, SnapEdges, SnapBig, SnapMixed}

Absent == [exists |-> FALSE, content |-> <<>>]
Written(content) == [exists |-> TRUE, content |-> content]

\* last_import.txt before the first run: absent, as the program writes it,
\* with a line break after the number, empty, without a digit
InitialFiles ==
    { Absent,
      Written(IntToString(INITIAL_IMPORT_TIME)),
      Written(IntToString(INITIAL_IMPORT_TIME + 1) \o <<"\n">>),
      Written(<<>>),
      Written(<<"a", "b", "c">>) }

\* an environment variable: <<>> when unset, <<value>> when set
Unset == <<>>
EnvOf(sid, from, to) ==
    [SID |-> sid, SOURCE_PROJECT_NAME |-> from, DESTINATION_PROJECT_NAME |-> to]

Envs ==
    { EnvOf(<<"sid">>, <<"from">>, <<"to">>),
      EnvOf(Unset, <<"from">>, <<"to">>),
      EnvOf(<<"sid">>, Unset, <<"to">>),
      EnvOf(<<"sid">>, <<"from">>, Unset) }

\* each variable unset, set to the empty string, or set
AllEnvs ==
    { EnvOf(sid, from, to) : sid \in {Unset, <<"">>, <<"sid">>},
                             from \in {Unset, <<"">>, <<"from">>},
                             to \in {Unset, <<"">>, <<"to">>} }

NoEnv == EnvOf(Unset, Unset, Unset)
NoConfig == [sid |-> "", exportingProjectName |-> "", importingProjectName |-> ""]
NoFailure == [_tag |-> ""]
NoRun == [outcome |-> "none", error |-> "", pages |-> <<>>, newPages |-> <<>>,
          fileAtStart |-> Absent]

---------------------------------------------------------------------------
(* The state before the first run. *)

NoResult ==
    [done |-> FALSE, outcome |-> "none", batches |-> <<>>, passed |-> <<>>]
NoSelected == [done |-> FALSE, out |-> <<>>, again |-> <<>>]
NoFiltered == [done |-> FALSE, out |-> <<>>]

NoFilterCall ==
    /\ fnPages = <<>>
    /\ fnSince = Undefined
    /\ fnSelected = NoSelected
    /\ fnFiltered = NoFiltered

IdleRun ==
    /\ pc = "idle"
    /\ environ = NoEnv
    /\ config = NoConfig
    /\ pages = <<>>
    /\ filteredPages = <<>>
    /\ lastImportTime = Undefined
    /\ newPages = <<>>
    /\ batches = <<>>
    /\ i = 0
    /\ calls = <<>>
    /\ trace = <<>>
    /\ outcome = "none"
    /\ error = ""
    /\ failure = NoFailure

Init ==
    /\ file \in InitialFiles
    /\ source \in Snapshots
    /\ runs = 0
    /\ IdleRun
    /\ fileAtStart = file
    /\ fileAfterRead = file
    /\ writes = <<>>
    /\ prev = NoRun
    /\ imported = <<>>
    /\ items = <<>>
    /\ batchSize = 1
    /\ result = NoResult
    /\ NoFilterCall

---------------------------------------------------------------------------
(* The steps of a run. *)

Succeed ==
    pc' = "done" /\ outcome' = "success" /\ error' = "" /\ failure' = NoFailure

\* the effect fails with value; main's catchAll logs it and exits with 1
FailWith(value) ==
    pc' = "done" /\ outcome' = "failure" /\ error' = value._tag
                /\ failure' = value

\* importPages' catch: what the ImportError holds
ImportError(message, project) ==
    [_tag |-> "ImportError", message |-> message, project |-> project]

\* the messages of the errors importPages throws
ImportMessages == {"Failed to get CSRF token", "Import failed"}

\* a failure of which the model keeps the _tag alone
Fail(tag) == FailWith([_tag |-> tag])

\* Config.string(name): fails when the variable is unset
getConfigFails(env) ==
    \/ env.SID = Unset
    \/ env.SOURCE_PROJECT_NAME = Unset
    \/ env.DESTINATION_PROJECT_NAME = Unset

getConfigEffect(env) ==
    [sid |-> Head(env.SID),
     exportingProjectName |-> Head(env.SOURCE_PROJECT_NAME),
     importingProjectName |-> Head(env.DESTINATION_PROJECT_NAME)]

\* Bun.write(LAST_IMPORT_FILE, time.toString()), when it succeeds
saveLastImportTimeEffect(time) ==
    /\ file' = Written(toString(time))
    /\ writes' = Append(writes, toString(time))

\* processBatchesEffect whose for loop starts at the second batch
processBatchesFromSecond(xs, size) ==
    /\ batches' = makeBatches(xs, size)
    /\ i' = 1
    /\ pc' = IF Len(makeBatches(xs, size)) > 1 THEN "import" ELSE "save"
    /\ UNCHANGED <<outcome, error, failure>>

\* processBatchesEffect up to its first processFunc
processBatchesEffect(xs, size) ==
    /\ batches' = makeBatches(xs, size)
    /\ i' = 0
    /\ pc' = IF Len(makeBatches(xs, size)) > 0 THEN "import" ELSE "save"
    /\ UNCHANGED <<outcome, error, failure>>

\* importPagesToProject up to its first suspension
importPagesToProject(ps) ==
    IF ps = <<>>
    THEN pc' = "save" /\ UNCHANGED <<batches, i, outcome, error, failure>>
    ELSE processBatchesEffect(ps, BATCH_SIZE)

\* selectAndImport without the return on an empty newPages
selectAndImportAlways(since) ==
    /\ lastImportTime' = since
    /\ newPages' = selectNewPages(filteredPages, since)
    /\ importPagesToProject(selectNewPages(filteredPages, since))

\* mainEffect once it has lastImportTime, up to its next suspension
selectAndImport(since) ==
    /\ lastImportTime' = since
    /\ newPages' = selectNewPages(filteredPages, since)
    /\ IF selectNewPages(filteredPages, since) = <<>>
       THEN Succeed /\ UNCHANGED <<batches, i>>
       ELSE importPagesToProject(selectNewPages(filteredPages, since))

\* processBatchesEffect's for loop, after a processFunc has ended
nextBatch ==
    /\ i' = i + 1
    /\ pc' = IF i + 1 < Len(batches) THEN "import" ELSE "save"

\* main in one of the environments envs: a run starts, and getConfigEffect
\* reads the environment
mainIn(envs) ==
    /\ pc = "idle"
    /\ runs < MaxRuns
    /\ runs' = runs + 1
    /\ fileAtStart' = file
    /\ fileAfterRead' = file
    /\ writes' = <<>>
    /\ \E env \in envs :
         /\ environ' = env
         /\ \/ /\ getConfigFails(env)
               /\ Fail("ConfigError")
               /\ UNCHANGED config
            \/ /\ ~getConfigFails(env)
               /\ config' = getConfigEffect(env)
               /\ pc' = "export"
               /\ UNCHANGED <<outcome, error, failure>>
    /\ UNCHANGED <<file, source, pages, filteredPages, lastImportTime, newPages,
                   batches, i, calls, trace, prev, imported, fnVars>>

\* main: a run starts, with every variable set or one of them unset
main == mainIn(Envs)

\* main: a run starts, each variable unset, empty or set
mainAnyEnv == mainIn(AllEnvs)

\* exportPagesFromProject in a run that reads the checkpoint before the
\* export has answered
exportPagesAfterCheckpoint ==
    /\ pc = "export"
    /\ \/ /\ pages' = source
          /\ filteredPages' = filterPrivateIconPages(source)
          /\ pc' = "read"
          /\ UNCHANGED <<outcome, error, failure, file, writes,
                         lastImportTime>>
       \/ /\ Fail("ExportError")
          /\ lastImportTime' = IF file.exists THEN parseInt(file.content)
                                              ELSE Num(INITIAL_IMPORT_TIME)
          /\ IF file.exists
             THEN UNCHANGED <<file, writes>>
             ELSE saveLastImportTimeEffect(Num(INITIAL_IMPORT_TIME))
          /\ UNCHANGED <<pages, filteredPages>>
    /\ UNCHANGED <<source, runs, environ, config, newPages, batches, i, calls, trace,
                   fileAtStart, fileAfterRead, prev, imported, fnVars>>

\* exportPages answers; filterPrivateIconPages follows at once
exportPagesFromProject ==
    /\ pc = "export"
    /\ \/ /\ pages' = source
          /\ filteredPages' = filterPrivateIconPages(source)
          /\ pc' = "read"
          /\ UNCHANGED <<outcome, error, failure>>
       \/ /\ Fail("ExportError")
          /\ UNCHANGED <<pages, filteredPages>>
    /\ UNCHANGED <<file, source, runs, environ, config, lastImportTime, newPages, batches,
                   i, calls, trace, histVars, fnVars>>

\* getLastImportTimeEffect that yields the default without writing it
getLastImportTimeUnsaved ==
    /\ pc = "read"
    /\ selectAndImport(IF file.exists THEN parseInt(file.content)
                                     ELSE Num(INITIAL_IMPORT_TIME))
    /\ fileAfterRead' = file
    /\ UNCHANGED <<file, source, runs, environ, config, pages, filteredPages, calls,
                   trace, fileAtStart, writes, prev, imported, fnVars>>

\* getLastImportTimeEffect: the read of last_import.txt ends
getLastImportTimeEffect ==
    /\ pc = "read"
    /\ IF file.exists
       THEN /\ selectAndImport(parseInt(file.content))
            /\ fileAfterRead' = file
       ELSE /\ pc' = "seed"
            /\ UNCHANGED <<lastImportTime, newPages, batches, i, outcome, error,
                           failure, fileAfterRead>>
    /\ UNCHANGED <<file, source, runs, environ, config, pages, filteredPages, calls,
                   trace, fileAtStart, writes, prev, imported, fnVars>>

\* getLastImportTimeEffect's catchAll: the write of the default ends
seedLastImportTime ==
    /\ pc = "seed"
    /\ \/ /\ saveLastImportTimeEffect(Num(INITIAL_IMPORT_TIME))
          /\ fileAfterRead' = Written(toString(Num(INITIAL_IMPORT_TIME)))
          /\ selectAndImport(Num(INITIAL_IMPORT_TIME))
       \/ /\ Fail("FileWriteError")
          /\ UNCHANGED <<file, writes, fileAfterRead, lastImportTime, newPages,
                         batches, i>>
    /\ UNCHANGED <<source, runs, environ, config, pages, filteredPages, calls, trace,
                   fileAtStart, prev, imported, fnVars>>

\* processFunc calls importPages on batch i + 1
importPages ==
    /\ pc = "import"
    /\ calls' = Append(calls, [batchNumber |-> i + 1,
                               totalBatches |-> Len(batches),
                               pages |-> batches[i + 1],
                               state |-> "pending"])
    /\ trace' = Append(trace, [ev |-> "import", n |-> Len(batches[i + 1])])
    /\ pc' = "importing"
    /\ UNCHANGED <<file, source, runs, environ, config, pages, filteredPages,
                   lastImportTime, newPages, batches, i, outcome, error,
                   failure, histVars, fnVars>>

\* importPagesDone that sleeps after every batch, the last too
importPagesDoneAlwaysSleeps ==
    /\ pc = "importing"
    /\ \/ /\ calls' = [calls EXCEPT ![Len(calls)].state = "ok"]
          /\ imported' = imported \o calls[Len(calls)].pages
          /\ pc' = "sleep"
          /\ i' = i
          /\ UNCHANGED <<outcome, error, failure>>
       \/ /\ calls' = [calls EXCEPT ![Len(calls)].state = "failed"]
          /\ \E message \in ImportMessages :
                FailWith(ImportError(message, config.importingProjectName))
          /\ i' = i
          /\ UNCHANGED imported
    /\ UNCHANGED <<file, source, runs, environ, config, pages, filteredPages,
                   lastImportTime, newPages, batches, trace, fileAtStart,
                   fileAfterRead, writes, prev, fnVars>>

\* importPagesDone with the failure of a batch not raised: the loop goes on
importPagesDoneSwallowed ==
    /\ pc = "importing"
    /\ \E state \in {"ok", "failed"} :
          /\ calls' = [calls EXCEPT ![Len(calls)].state = state]
          /\ imported' = IF state = "ok"
                         THEN imported \o calls[Len(calls)].pages
                         ELSE imported
          /\ IF calls[Len(calls)].batchNumber < calls[Len(calls)].totalBatches
             THEN pc' = "sleep" /\ i' = i
             ELSE nextBatch
          /\ UNCHANGED <<outcome, error, failure>>
    /\ UNCHANGED <<file, source, runs, environ, config, pages, filteredPages,
                   lastImportTime, newPages, batches, trace, fileAtStart,
                   fileAfterRead, writes, prev, fnVars>>

\* importPagesDone that, when a batch fails, saves the checkpoint of the
\* batches imported before it
importPagesDoneSavesProgress ==
    /\ pc = "importing"
    /\ \/ /\ calls' = [calls EXCEPT ![Len(calls)].state = "ok"]
          /\ imported' = imported \o calls[Len(calls)].pages
          /\ IF calls[Len(calls)].batchNumber < calls[Len(calls)].totalBatches
             THEN pc' = "sleep" /\ i' = i
             ELSE nextBatch
          /\ UNCHANGED <<outcome, error, failure, file, writes>>
       \/ /\ calls' = [calls EXCEPT ![Len(calls)].state = "failed"]
          /\ \E message \in ImportMessages :
                FailWith(ImportError(message, config.importingProjectName))
          /\ i' = i
          /\ IF i > 0
             THEN saveLastImportTimeEffect(
                      MathMax(updatedOf(SubSeq(newPages, 1, i * BATCH_SIZE))))
             ELSE UNCHANGED <<file, writes>>
          /\ UNCHANGED imported
    /\ UNCHANGED <<source, runs, environ, config, pages, filteredPages,
                   lastImportTime, newPages, batches, trace, fileAtStart,
                   fileAfterRead, prev, fnVars>>

\* importPages ends; processFunc sleeps unless the batch was the last
importPagesDone ==
    /\ pc = "importing"
    /\ \/ /\ calls' = [calls EXCEPT ![Len(calls)].state = "ok"]
          /\ imported' = imported \o calls[Len(calls)].pages
          /\ IF calls[Len(calls)].batchNumber < calls[Len(calls)].totalBatches
             THEN pc' = "sleep" /\ i' = i
             ELSE nextBatch
          /\ UNCHANGED <<outcome, error, failure>>
       \/ /\ calls' = [calls EXCEPT ![Len(calls)].state = "failed"]
          /\ \E message \in ImportMessages :
                FailWith(ImportError(message, config.importingProjectName))
          /\ i' = i
          /\ UNCHANGED imported
    /\ UNCHANGED <<file, source, runs, environ, config, pages, filteredPages,
                   lastImportTime, newPages, batches, trace, fileAtStart,
                   fileAfterRead, writes, prev, fnVars>>

\* Effect.sleep('1 second') ends
sleep ==
    /\ pc = "sleep"
    /\ trace' = Append(trace, [ev |-> "sleep", n |-> SLEEP_SECONDS])
    /\ nextBatch
    /\ UNCHANGED <<file, source, runs, environ, config, pages, filteredPages,
                   lastImportTime, newPages, batches, calls, outcome, error,
                   failure, histVars, fnVars>>

\* saveNewImportTime with the failure of the write not raised
saveNewImportTimeSwallowed ==
    /\ pc = "save"
    /\ \/ /\ saveLastImportTimeEffect(MathMax(updatedOf(newPages)))
          /\ Succeed
       \/ /\ Succeed
          /\ UNCHANGED <<file, writes>>
    /\ UNCHANGED <<source, runs, environ, config, pages, filteredPages, lastImportTime,
                   newPages, batches, i, calls, trace, fileAtStart,
                   fileAfterRead, prev, imported, fnVars>>

\* mainEffect's last step: the write of the new checkpoint ends
saveNewImportTime ==
    /\ pc = "save"
    /\ \/ /\ saveLastImportTimeEffect(MathMax(updatedOf(newPages)))
          /\ Succeed
       \/ /\ Fail("FileWriteError")
          /\ UNCHANGED <<file, writes>>
    /\ UNCHANGED <<source, runs, environ, config, pages, filteredPages, lastImportTime,
                   newPages, batches, i, calls, trace, fileAtStart,
                   fileAfterRead, prev, imported, fnVars>>

\* the process ends
exit ==
    /\ pc = "done"
    /\ prev' = [outcome |-> outcome, error |-> error, pages |-> pages,
                newPages |-> newPages, fileAtStart |-> fileAtStart]
    /\ pc' = "idle"
    /\ environ' = NoEnv
    /\ config' = NoConfig
    /\ pages' = <<>>
    /\ filteredPages' = <<>>
    /\ lastImportTime' = Undefined
    /\ newPages' = <<>>
    /\ batches' = <<>>
    /\ i' = 0
    /\ calls' = <<>>
    /\ trace' = <<>>
    /\ outcome' = "none"
    /\ error' = ""
    /\ failure' = NoFailure
    /\ fileAtStart' = file
    /\ fileAfterRead' = file
    /\ writes' = <<>>
    /\ UNCHANGED <<file, source, runs, imported, fnVars>>

\* between two runs the pages of the exporting project change
editSource ==
    /\ pc = "idle"
    /\ runs > 0
    /\ runs < MaxRuns
    /\ source' \in Snapshots \ {source}
    /\ UNCHANGED <<file, runs, runVars, histVars, fnVars>>

Next ==
    \/ main
    \/ exportPagesFromProject
    \/ getLastImportTimeEffect
    \/ seedLastImportTime
    \/ importPages
    \/ importPagesDone
    \/ sleep
    \/ saveNewImportTime
    \/ exit
    \/ editSource

Spec == Init /\ [][Next]_vars

---------------------------------------------------------------------------
(* The promise-chaining variant (src/unnamed/part_000, lines 1-151).  Its  *)
(* main takes the same steps as mainEffect, with exceptions for failures,  *)
(* and is modelled by the same actions; its importPagesToProject walks the *)
(* batches with Array.reduce, each callback awaiting the promise of the    *)
(* one before.                                                             *)

\* the reduce callback after its importPages: on a result that is not ok
\* it returns an error object, which resolves its promise, and the callback
\* of the next batch goes on; after the last callback main goes on to
\* saveLastImportTime
importPagesReduceDone ==
    /\ pc = "importing"
    /\ \/ /\ calls' = [calls EXCEPT ![Len(calls)].state = "ok"]
          /\ imported' = imported \o calls[Len(calls)].pages
          /\ IF calls[Len(calls)].batchNumber < calls[Len(calls)].totalBatches
             THEN pc' = "sleep" /\ i' = i
             ELSE nextBatch
       \/ /\ calls' = [calls EXCEPT ![Len(calls)].state = "failed"]
          /\ nextBatch
          /\ UNCHANGED imported
    /\ UNCHANGED <<outcome, error, failure>>
    /\ UNCHANGED <<file, source, runs, environ, config, pages, filteredPages,
                   lastImportTime, newPages, batches, trace, fileAtStart,
                   fileAfterRead, writes, prev, fnVars>>

ReduceNext ==
    \/ main
    \/ exportPagesFromProject
    \/ getLastImportTimeEffect
    \/ seedLastImportTime
    \/ importPages
    \/ importPagesReduceDone
    \/ sleep
    \/ saveNewImportTime
    \/ exit
    \/ editSource

ReduceSpec == Init /\ [][ReduceNext]_vars

---------------------------------------------------------------------------
(* The program from its first run on, in an exporting project where every  *)
(* page created or edited between two runs gets an updated after the       *)
(* checkpoint in last_import.txt at that time.                             *)

\* the number in last_import.txt; the default while it holds none
PersistedCheckpoint ==
    IF file.exists /\ parseInt(file.content).kind = "int"
    THEN parseInt(file.content).val
    ELSE INITIAL_IMPORT_TIME

\* no page of ps has the title
NoTitle(ps, title) == \A k \in 1..Len(ps) : ps[k].title # title

\* the exporting project after one change made now: its last page edited
\* and without the icon, its first page edited and private, a page created,
\* its first page deleted; the last three in a project of few pages only
LaterSnapshots(ps) ==
    (IF ps # <<>>
     THEN {[ps EXCEPT ![Len(ps)] = Page(ps[Len(ps)].title,
                                        PersistedCheckpoint + 1, PlainLines)]}
     ELSE {})
    \cup
    (IF 1 < Len(ps) /\ Len(ps) < MaxEdited
     THEN {[ps EXCEPT ![1] = Page(ps[1].title, PersistedCheckpoint + 2,
                                  <<Line(PRIVATE_ICON)>>)],
           Tail(ps)}
     ELSE {})
    \cup
    (IF Len(ps) < MaxEdited /\ NoTitle(ps, 0)
     THEN {Append(ps, Page(0, PersistedCheckpoint + 2, PlainLines))}
     ELSE {})

LaterInit ==
    /\ Init
    /\ file \in {Absent, Written(IntToString(INITIAL_IMPORT_TIME))}
    /\ source \in {SnapScenario, SnapMixed}

\* between two runs a page is created, edited or deleted
editSourceLater ==
    /\ pc = "idle"
    /\ runs > 0
    /\ runs < MaxRuns
    /\ source' \in LaterSnapshots(source) \ {source}
    /\ UNCHANGED <<file, runs, runVars, histVars, fnVars>>

LaterNext ==
    \/ main
    \/ exportPagesFromProject
    \/ getLastImportTimeEffect
    \/ seedLastImportTime
    \/ importPages
    \/ importPagesDone
    \/ sleep
    \/ saveNewImportTime
    \/ exit
    \/ editSourceLater

LaterSpec == LaterInit /\ [][LaterNext]_vars

---------------------------------------------------------------------------
(* The program in any environment, on the two snapshots that need one      *)
(* batch and two.                                                          *)

EnvInit ==
    /\ Init
    /\ source \in {SnapScenario, SnapMixed}

EnvNext ==
    \/ mainAnyEnv
    \/ exportPagesFromProject
    \/ getLastImportTimeEffect
    \/ seedLastImportTime
    \/ importPages
    \/ importPagesDone
    \/ sleep
    \/ saveNewImportTime
    \/ exit

EnvSpec == EnvInit /\ [][EnvNext]_vars

---------------------------------------------------------------------------
(* processBatchesEffect on its own, with a processFunc that succeeds: any   *)
(* items, any batch size, above 0 or not.                                  *)

ItemValues == {"a", "b", "c"}
ItemLists == UNION {[1..n -> ItemValues] : n \in 0..MaxItems}

FnInit ==
    /\ file = Absent
    /\ source = <<>>
    /\ runs = 0
    /\ IdleRun
    /\ fileAtStart = file
    /\ fileAfterRead = file
    /\ writes = <<>>
    /\ prev = NoRun
    /\ imported = <<>>
    /\ items \in ItemLists
    /\ batchSize \in (0 - MaxBatchSize)..MaxBatchSize
    /\ result = NoResult
    /\ NoFilterCall

\* processBatchesEffect(items, batchSize, processFunc): the batches are
\* made, which may throw, and the for loop hands each to processFunc
callProcessBatches ==
    /\ ~result.done
    /\ result' =
          IF arrayLengthThrows(Len(items), batchSize)
          THEN [done |-> TRUE, outcome |-> "error", batches |-> <<>>,
                passed |-> <<>>]
          ELSE [done |-> TRUE, outcome |-> "success",
                batches |-> makeBatches(items, batchSize),
                passed |-> passedItems(makeBatches(items, batchSize))]
    /\ UNCHANGED <<file, source, runs, runVars, histVars, items, batchSize,
                   fnPages, fnSince, fnSelected, fnFiltered>>

FnNext == callProcessBatches

FnSpec == FnInit /\ [][FnNext]_vars

---------------------------------------------------------------------------
(* The two filters of mainEffect on their own: any short list of pages,    *)
(* any checkpoint.                                                         *)

\* no run of the program, no call of processBatchesEffect
Unstarted ==
    /\ file = Absent
    /\ source = <<>>
    /\ runs = 0
    /\ IdleRun
    /\ fileAtStart = file
    /\ fileAfterRead = file
    /\ writes = <<>>
    /\ prev = NoRun
    /\ imported = <<>>
    /\ items = <<>>
    /\ batchSize = 1
    /\ result = NoResult

\* the sequences of up to MaxPages elements of pool
ListsOf(pool) == UNION {[1..n -> pool] : n \in 0..MaxPages}

\* pages older than, as old as and newer than the default checkpoint
StampedPages ==
    { Page(1, INITIAL_IMPORT_TIME - 1, PlainLines),
      Page(2, INITIAL_IMPORT_TIME, PlainLines),
      Page(3, INITIAL_IMPORT_TIME + 1, PlainLines) }

\* the checkpoints: below, at and above the default, and parseInt's NaN
Checkpoints ==
    { Num(INITIAL_IMPORT_TIME - 1), Num(INITIAL_IMPORT_TIME),
      Num(INITIAL_IMPORT_TIME + 1), NaN }

SelectInit ==
    /\ Unstarted
    /\ fnPages \in ListsOf(StampedPages)
    /\ fnSince \in Checkpoints
    /\ fnSelected = NoSelected
    /\ fnFiltered = NoFiltered

\* filteredPages.filter(p => p.updated > lastImportTime), and the same
\* filter on what it returned
callSelectNewPages ==
    /\ ~fnSelected.done
    /\ fnSelected' =
          [done |-> TRUE,
           out |-> selectNewPages(fnPages, fnSince),
           again |-> selectNewPages(selectNewPages(fnPages, fnSince), fnSince)]
    /\ UNCHANGED <<file, source, runs, runVars, histVars, items, batchSize,
                   result, fnPages, fnSince, fnFiltered>>

SelectNext == callSelectNewPages

SelectSpec == SelectInit /\ [][SelectNext]_vars

\* the icon at the end of a text
TextIconAtEnd == TextPlain \o PRIVATE_ICON

\* pages without a line, without the icon, with the icon as a whole line,
\* inside a second line, at the end of a first line, and with nearly the icon
MarkedPages ==
    { Page(1, INITIAL_IMPORT_TIME + 1, <<>>),
      Page(2, INITIAL_IMPORT_TIME + 1, PlainLines),
      Page(3, INITIAL_IMPORT_TIME + 1, <<Line(PRIVATE_ICON)>>),
      Page(4, INITIAL_IMPORT_TIME + 1, <<Line(TextPlain), Line(TextIconInside)>>),
      Page(5, INITIAL_IMPORT_TIME + 1, <<Line(TextIconAtEnd), Line(TextPlain)>>),
      Page(6, INITIAL_IMPORT_TIME + 1, <<Line(TextAlmostIcon)>>) }

FilterInit ==
    /\ Unstarted
    /\ fnPages \in ListsOf(MarkedPages)
    /\ fnSince = Undefined
    /\ fnSelected = NoSelected
    /\ fnFiltered = NoFiltered

\* filterPrivateIconPages(pages)
callFilterPrivateIconPages ==
    /\ ~fnFiltered.done
    /\ fnFiltered' = [done |-> TRUE, out |-> filterPrivateIconPages(fnPages)]
    /\ UNCHANGED <<file, source, runs, runVars, histVars, items, batchSize,
                   result, fnPages, fnSince, fnSelected>>

FilterNext == callFilterPrivateIconPages

FilterSpec == FilterInit /\ [][FilterNext]_vars

---------------------------------------------------------------------------
(* What the claims speak of. *)

\* the checkpoint has been read (or seeded) and the delta selected
Selected == lastImportTime # Undefined

\* the greatest updated among the pages of ps, ps not empty
MaxUpdated(ps) ==
    CHOOSE m \in {ps[k].updated : k \in 1..Len(ps)} :
        \A k \in 1..Len(ps) : ps[k].updated <= m

\* the positions in the exported pages of the pages of the delta: not
\* private, and updated after the checkpoint
DeltaPositions ==
    {k \in 1..Len(pages) :
        /\ ~IsPrivate(pages[k])
        /\ lastImportTime.kind = "int"
        /\ pages[k].updated > lastImportTime.val}

\* the checkpoint writes this run made once lastImportTime was known
WritesAfterRead == Len(writes) - (IF fileAtStart.exists THEN 0 ELSE 1)

---------------------------------------------------------------------------
(* The claims. *)

\* C1: when the import of batch k fails, no import call follows (none for a
\* batch after k), the run ends in failure with ImportError, no checkpoint
\* is written for the delta, and last_import.txt holds at the end of the run
\* the checkpoint the run read at its start.
C1_FailFast ==
    \A k \in 1..Len(calls) :
        calls[k].state = "failed" =>
            /\ k = Len(calls)
            /\ \A j \in 1..Len(calls) : calls[j].batchNumber <= calls[k].batchNumber
            /\ pc = "done"
            /\ outcome = "failure"
            /\ error = "ImportError"
            /\ WritesAfterRead = 0
            /\ file = fileAfterRead
            /\ file.exists
            /\ parseInt(file.content) = lastImportTime

\* the second of three batches has failed
C1_Witness ==
    /\ Len(calls) = 2
    /\ calls[1].state = "ok"
    /\ calls[2].state = "failed"
    /\ calls[2].totalBatches = 3
    /\ pc = "done"

\* C2: no private page (a page one of whose lines holds '[private.icon]')
\* is in the page list of an import call, and the checkpoint written at the
\* end of a run is the greatest updated among the pages of the delta that
\* are not private, also when a private page was updated later.
C2_ExcludedNeverReplicated ==
    /\ \A c \in 1..Len(calls) : \A k \in 1..Len(calls[c].pages) :
          ~IsPrivate(calls[c].pages[k])
    /\ (pc = "done" /\ outcome = "success" /\ WritesAfterRead > 0) =>
          LET D == DeltaPositions
              c == parseInt(file.content)
          IN  /\ c.kind = "int"
              /\ file = Written(IntToString(c.val))
              /\ \E k \in D : pages[k].updated = c.val
              /\ \A j \in D : pages[j].updated <= c.val

\* the scenario of the specification: checkpoint 1745842021, pages A, B and
\* the private C, which is the newest; B alone is imported, in one batch,
\* and the checkpoint becomes 1745842022
C2_Witness ==
    /\ pages = SnapScenario
    /\ lastImportTime = Num(1745842021)
    /\ Len(calls) = 1
    /\ calls[1].pages = <<SnapScenario[2]>>
    /\ calls[1].totalBatches = 1
    /\ outcome = "success"
    /\ file = Written(<<"1", "7", "4", "5", "8", "4", "2", "0", "2", "2">>)
    /\ \E k \in 1..Len(pages) :
          IsPrivate(pages[k]) /\ pages[k].updated > 1745842022

\* C3: when every batch import of a run with a delta succeeds, and the
\* checkpoint write too, last_import.txt holds after the run the greatest
\* updated of the delta; and a run that follows and exports the same pages
\* selects no page, calls importPages for none and leaves last_import.txt
\* as it is.
C3_AdvanceToMaxThenQuiet ==
    /\ (pc = "done" /\ outcome = "success" /\ newPages # <<>>) =>
          /\ Len(calls) = Len(batches)
          /\ \A c \in 1..Len(calls) : calls[c].state = "ok"
          /\ file = Written(IntToString(MaxUpdated(newPages)))
    /\ (/\ prev.outcome = "success"
        /\ prev.newPages # <<>>
        /\ Selected
        /\ pages = prev.pages) =>
          /\ newPages = <<>>
          /\ calls = <<>>
          /\ writes = <<>>
          /\ file = fileAtStart
          /\ file = Written(IntToString(MaxUpdated(prev.newPages)))
          /\ pc = "done"
          /\ outcome = "success"

\* a run over the pages the run before it replicated has ended
C3_Witness ==
    /\ prev.outcome = "success"
    /\ Len(prev.newPages) > 1
    /\ pages = prev.pages
    /\ Selected
    /\ pc = "done"
    /\ file = Written(IntToString(MaxUpdated(prev.newPages)))

\* the step of C4: a last_import.txt that exists still exists after the
\* step, and a number it held is not greater than the number it then holds
CheckpointStep ==
    file.exists =>
        /\ file'.exists
        /\ parseInt(file.content).kind = "int" =>
              /\ parseInt(file'.content).kind = "int"
              /\ parseInt(file'.content).val >= parseInt(file.content).val

C5_OldPagesNotReimported ==
    LET atStart == IF fileAtStart.exists THEN parseInt(fileAtStart.content)
                   ELSE Undefined
    IN  \A c \in 1..Len(calls) : \A k \in 1..Len(calls[c].pages) :
            /\ lastImportTime.kind = "int"
            /\ calls[c].pages[k].updated > lastImportTime.val
            /\ atStart.kind = "int" => calls[c].pages[k].updated > atStart.val

\* a run imports pages while a page updated exactly at the checkpoint read
\* from the file is among the exported pages
C5_Witness ==
    /\ fileAtStart.exists
    /\ calls # <<>>
    /\ calls[Len(calls)].state = "ok"
    /\ \E k \in 1..Len(pages) :
          /\ ~IsPrivate(pages[k])
          /\ Num(pages[k].updated) = parseInt(fileAtStart.content)

\* C6: when last_import.txt holds no integer (an empty text, a text without
\* a digit), the run does not fail: the read yields the default 1745842021,
\* the default is written to the file at once, and the delta is selected
\* against 1745842021.
C6_UnparsableIsFirstRun ==
    (/\ fileAtStart.exists
     /\ parseInt(fileAtStart.content) = NaN
     /\ Selected) =>
        /\ lastImportTime = Num(1745842021)
        /\ writes # <<>>
        /\ writes[1] = IntToString(1745842021)

\* C7: when last_import.txt is absent at the start of a run, the read yields
\* the default 1745842021 and the default is written to the file before the
\* delta is selected and before any import call; when that write fails, the
\* run fails and calls importPages for no batch.
C7_AbsentFileSeeded ==
    ~fileAtStart.exists =>
        /\ Selected =>
              /\ lastImportTime = Num(1745842021)
              /\ writes # <<>>
              /\ writes[1] = IntToString(1745842021)
              /\ fileAfterRead = Written(IntToString(1745842021))
              /\ file.exists
        /\ writes = <<>> =>
              /\ ~Selected
              /\ newPages = <<>>
              /\ calls = <<>>
              /\ ~file.exists
        /\ (pc = "done" /\ writes = <<>>) =>
              /\ outcome = "failure"
              /\ error \in {"ConfigError", "ExportError", "FileWriteError"}

\* the file was absent, the default was written, and a batch is imported
C7_Witness ==
    /\ ~fileAtStart.exists
    /\ writes = <<IntToString(1745842021)>>
    /\ Len(calls) = 1
    /\ pc = "importing"

\* what the run has to do for batches of the sizes ns: an import for each,
\* and a sleep of one second after each but the last
RECURSIVE ExpectedTrace(_)
ExpectedTrace(ns) ==
    IF ns = <<>> THEN <<>>
    ELSE IF Len(ns) = 1 THEN <<[ev |-> "import", n |-> ns[1]]>>
    ELSE <<[ev |-> "import", n |-> ns[1]], [ev |-> "sleep", n |-> 1]>>
         \o ExpectedTrace(Tail(ns))

\* the sizes of the batches of n pages, 100 pages each, the last with the
\* rest
RECURSIVE BatchSizes(_)
BatchSizes(n) ==
    IF n <= 0 THEN <<>>
    ELSE IF n <= 100 THEN <<n>>
    ELSE <<100>> \o BatchSizes(n - 100)

IsPrefix(xs, ys) == Len(xs) <= Len(ys) /\ xs = SubSeq(ys, 1, Len(xs))

\* C8: the batches are imported one after the other in the order of the
\* partition, an import call is issued only when every call before it has
\* ended with success, and the run sleeps one second after every successful
\* batch but the last; 250 pages give import(100), sleep, import(100),
\* sleep, import(50).
C8_SequentialAndPaced ==
    /\ \A c \in 1..Len(calls) :
          /\ calls[c].batchNumber = c
          /\ calls[c].pages = batches[c]
          /\ c < Len(calls) => calls[c].state = "ok"
          /\ calls[c].state = "pending" => pc = "importing"
    /\ IsPrefix(trace, ExpectedTrace(BatchSizes(Len(newPages))))
    /\ (pc = "sleep") =>
          /\ trace # <<>>
          /\ trace[Len(trace)].ev = "import"
          /\ calls[Len(calls)].state = "ok"
          /\ Len(calls) < Len(batches)
    /\ (pc = "import" /\ calls # <<>>) => trace[Len(trace)].ev = "sleep"
    /\ (pc = "save" \/ (pc = "done" /\ outcome = "success" /\ newPages # <<>>)) =>
          trace = ExpectedTrace(BatchSizes(Len(newPages)))
    /\ (Len(newPages) = 250 /\ pc = "save") =>
          trace = << [ev |-> "import", n |-> 100], [ev |-> "sleep", n |-> 1],
                     [ev |-> "import", n |-> 100], [ev |-> "sleep", n |-> 1],
                     [ev |-> "import", n |-> 50] >>

\* the three batches of 250 pages have been imported
C8_Witness ==
    /\ Len(newPages) = 250
    /\ Len(calls) = 3
    /\ pc = "save"

\* the concatenation of the sequences of bs
RECURSIVE Concat(_)
Concat(bs) == IF bs = <<>> THEN <<>> ELSE Head(bs) \o Concat(Tail(bs))

\* C9: for a list of items that is not empty and a batch size above 0,
\* processBatchesEffect makes ceil(|items| / batchSize) batches, none empty
\* and none longer than batchSize, all but the last of batchSize items, and
\* the batches one after the other are the items: none lost, none twice,
\* none moved.
C9_PartitionExact ==
    (result.done /\ items # <<>> /\ batchSize > 0) =>
        /\ (Len(result.batches) - 1) * batchSize < Len(items)
        /\ Len(items) <= Len(result.batches) * batchSize
        /\ \A b \in 1..Len(result.batches) :
              /\ Len(result.batches[b]) >= 1
              /\ Len(result.batches[b]) <= batchSize
              /\ b < Len(result.batches) => Len(result.batches[b]) = batchSize
        /\ Concat(result.batches) = items

\* four items in batches of three: a full batch and a last one of one item
C9_Witness ==
    /\ result.done
    /\ Len(items) = 4
    /\ batchSize = 3
    /\ Len(result.batches) = 2
    /\ Len(result.batches[2]) = 1

\* no exported page is in the delta: each is private or not updated after
\* the checkpoint
EmptyDelta ==
    \A k \in 1..Len(pages) :
        IsPrivate(pages[k]) \/ ~GreaterThan(pages[k].updated, lastImportTime)

\* C10: when the delta is empty, the run ends with success, calls
\* importPages for no batch and writes no checkpoint after the checkpoint
\* read, so last_import.txt holds the value that was read.
C10_EmptyDeltaTouchesNothing ==
    (Selected /\ EmptyDelta) =>
        /\ pc = "done"
        /\ outcome = "success"
        /\ newPages = <<>>
        /\ calls = <<>>
        /\ trace = <<>>
        /\ WritesAfterRead = 0
        /\ file = fileAfterRead
        /\ parseInt(file.content) = lastImportTime

\* pages were exported, all of them old or private
C10_Witness ==
    /\ Selected
    /\ EmptyDelta
    /\ Len(pages) > 1
    /\ lastImportTime.kind = "int"
    /\ pc = "done"

---------------------------------------------------------------------------
(* C11: the run after a failed run selects the failed run's delta again. *)

\* the checkpoint a run selects against when it finds last_import.txt as f
CheckpointOf(f) ==
    IF f.exists THEN parseInt(f.content) ELSE Num(INITIAL_IMPORT_TIME)

\* the delta of a run that exports S and finds last_import.txt as f
DeltaOf(S, f) == selectNewPages(filterPrivateIconPages(S), CheckpointOf(f))

\* every page of qs is a page of ps
Contains(ps, qs) ==
    \A k \in 1..Len(qs) : \E j \in 1..Len(ps) : ps[j] = qs[k]

\* C11: when the run before failed at a batch import, or at the export
\* (whatever snapshot S it would have exported), and this run exports a
\* snapshot that holds every page of the failed run's delta unchanged, the
\* delta this run selects holds every page of the failed run's delta, the
\* pages of the batches imported before the failure too.
C11_FailedDeltaSelectedAgain ==
    /\ (/\ prev.error = "ImportError"
        /\ Selected
        /\ (pages = prev.pages \/ Contains(pages, prev.newPages))) =>
            (newPages = prev.newPages \/ Contains(newPages, prev.newPages))
    /\ (prev.error = "ExportError" /\ Selected) =>
            \A S \in Snapshots :
                LET D == DeltaOf(S, prev.fileAtStart)
                IN  (pages = S \/ Contains(pages, D)) =>
                        (newPages = D \/ Contains(newPages, D))

\* the run before failed at its second or third batch; this run selects
\* the pages of the batch imported then again
C11_Witness ==
    /\ prev.error = "ImportError"
    /\ pc = "import"
    /\ calls = <<>>
    /\ pages = prev.pages
    /\ Len(prev.newPages) > BATCH_SIZE
    /\ newPages = prev.newPages
    /\ imported # <<>>
    /\ imported[1] = newPages[1]

---------------------------------------------------------------------------
(* C12: a failed export ends the run before anything else is touched. *)

\* C12: when exportPagesFromProject fails with ExportError, the run ends
\* with a failure, importPages is called for no batch, and last_import.txt
\* is neither read nor written: it is, or is absent, as the run found it.
C12_ExportFailureTouchesNothing ==
    error = "ExportError" =>
        /\ pc = "done"
        /\ outcome = "failure"
        /\ failure._tag = "ExportError"
        /\ calls = <<>>
        /\ trace = <<>>
        /\ ~Selected
        /\ writes = <<>>
        /\ file = fileAtStart
        /\ fileAfterRead = fileAtStart

\* the export of a project with pages failed in a run with no
\* last_import.txt
C12_Witness ==
    /\ error = "ExportError"
    /\ pc = "done"
    /\ source # <<>>
    /\ ~file.exists

---------------------------------------------------------------------------
(* C13: a failed write of the new checkpoint. *)

\* every batch of the run was imported
AllImported ==
    /\ calls # <<>>
    /\ Len(calls) = Len(batches)
    /\ \A k \in 1..Len(calls) : calls[k].state = "ok"

\* the run before imported every batch and then failed to write
PrevWriteFailed == prev.error = "FileWriteError" /\ prev.newPages # <<>>

\* C13: a run that imported every batch and ended without a checkpoint
\* write after the read has failed, with FileWriteError, and last_import.txt
\* is as the checkpoint read left it; the run after it, when it exports
\* the same pages, reads the same checkpoint, selects the same delta and
\* calls importPages for its batches again.
C13_WriteFailureRepeatsDelta ==
    /\ (pc = "done" /\ AllImported /\ WritesAfterRead = 0) =>
            /\ outcome = "failure"
            /\ error = "FileWriteError"
            /\ file = fileAfterRead
    /\ (error = "FileWriteError" /\ calls # <<>>) =>
            /\ AllImported
            /\ file = fileAfterRead
    /\ (PrevWriteFailed /\ Selected /\ pages = prev.pages) =>
            /\ lastImportTime = CheckpointOf(prev.fileAtStart)
            /\ newPages = prev.newPages
            /\ pc = "done" => calls # <<>>
            /\ \A k \in 1..Len(calls) :
                  calls[k].pages =
                      SubSeq(newPages, (k - 1) * BATCH_SIZE + 1,
                             Min(k * BATCH_SIZE, Len(newPages)))

\* after a failed write, the next run has imported the three batches again
\* and succeeded
C13_Witness ==
    /\ PrevWriteFailed
    /\ pages = prev.pages
    /\ pc = "done"
    /\ outcome = "success"
    /\ Len(calls) > 2
    /\ newPages = prev.newPages

---------------------------------------------------------------------------
(* C14, C15: the two filters. *)

\* the n-th smallest element of the set S of numbers
NthOf(S, n) == CHOOSE k \in S : Cardinality({m \in S : m <= k}) = n

\* out holds the elements of ps at the positions K, in their order
IsSelection(out, ps, K) ==
    /\ Len(out) = Cardinality(K)
    /\ \A n \in 1..Len(out) : out[n] = ps[NthOf(K, n)]

\* the positions of the pages of ps updated after C
NewerPositions(ps, C) ==
    {k \in 1..Len(ps) : C.kind = "int" /\ ps[k].updated > C.val}

\* C14: for every checkpoint C and every list of pages P, the selection
\* returns the pages of P whose updated is greater than C, and no other, in
\* the order they have in P; selecting again from the result with the same
\* C returns the result; when P is empty or no page is updated after C the
\* result is empty.
C14_SelectionExact ==
    fnSelected.done =>
        /\ IsSelection(fnSelected.out, fnPages, NewerPositions(fnPages, fnSince))
        /\ fnSelected.again = fnSelected.out
        /\ (\/ fnPages = <<>>
            \/ /\ fnSince.kind = "int"
               /\ \A k \in 1..Len(fnPages) : fnPages[k].updated <= fnSince.val)
                => fnSelected.out = <<>>

\* two pages of different age are selected, after a page as old as the
\* checkpoint that is not
C14_Witness ==
    /\ fnSelected.done
    /\ fnSince.kind = "int"
    /\ Len(fnPages) = 3
    /\ fnPages[1].updated = fnSince.val
    /\ Len(fnSelected.out) = 2
    /\ fnSelected.out[1].updated > fnSelected.out[2].updated

\* a line of p holds '[private.icon]' at some offset
HasMarker(p) ==
    \E k \in 1..Len(p.lines) :
        \E o \in 0..(Len(p.lines[k].text) - Len(PRIVATE_ICON)) :
            \A j \in 1..Len(PRIVATE_ICON) :
                p.lines[k].text[o + j] = PRIVATE_ICON[j]

\* C15: for every list of pages P, filterPrivateIconPages returns the pages
\* of P none of whose lines holds '[private.icon]', and no other, each as
\* it is in P and in the order of P; a page with the icon in any line at
\* any offset is removed, a page without lines is kept.
C15_FilterExact ==
    fnFiltered.done =>
        /\ IsSelection(fnFiltered.out, fnPages,
                       {k \in 1..Len(fnPages) : ~HasMarker(fnPages[k])})
        /\ \A n \in 1..Len(fnFiltered.out) : ~HasMarker(fnFiltered.out[n])
        /\ \A k \in 1..Len(fnPages) :
              fnPages[k].lines = <<>> =>
                  \E n \in 1..Len(fnFiltered.out) : fnFiltered.out[n] = fnPages[k]

\* a page with the icon inside its second line is removed from between a
\* page with nearly the icon and a page without lines, which are kept
C15_Witness ==
    /\ fnFiltered.done
    /\ Len(fnPages) = 3
    /\ fnPages[1].lines = <<Line(TextAlmostIcon)>>
    /\ fnPages[2].lines = <<Line(TextPlain), Line(TextIconInside)>>
    /\ fnPages[3].lines = <<>>
    /\ fnFiltered.out = <<fnPages[1], fnPages[3]>>

---------------------------------------------------------------------------
(* C16: what the failure of a batch import tells of the batch. *)

\* C16: when a batch import fails, the failure value that reaches main's
\* catchAll names the batch that failed: its ordinal, counted from 1, and
\* the number of batches.
C16_FailureNamesBatch ==
    error = "ImportError" =>
        /\ {"batchNumber", "totalBatches"} \subseteq DOMAIN failure
        /\ failure.batchNumber = calls[Len(calls)].batchNumber
        /\ failure.totalBatches = calls[Len(calls)].totalBatches

---------------------------------------------------------------------------
(* C17: the environment variables. *)

\* the variable is unset or set to the empty string
MissingOrEmpty(v) == v = Unset \/ v = <<"">>

\* C17: a run in whose environment SID, SOURCE_PROJECT_NAME or
\* DESTINATION_PROJECT_NAME is unset or empty fails with a configuration
\* error, before any export or import call and before last_import.txt is
\* read or written.
C17_ConfigChecked ==
    (/\ pc # "idle"
     /\ \/ MissingOrEmpty(environ.SID)
        \/ MissingOrEmpty(environ.SOURCE_PROJECT_NAME)
        \/ MissingOrEmpty(environ.DESTINATION_PROJECT_NAME)) =>
        /\ pc = "done"
        /\ outcome = "failure"
        /\ error = "ConfigError"
        /\ pages = <<>>
        /\ calls = <<>>
        /\ ~Selected
        /\ writes = <<>>
        /\ file = fileAtStart

---------------------------------------------------------------------------
(* C18: the promise-chaining importer when a batch fails. *)

\* C18: in the promise-chaining importer, when importPages returns a result
\* that is not ok for a batch, importPages is called for no later batch, the
\* run ends in main's catch branch, and saveLastImportTime is not called:
\* last_import.txt keeps what the checkpoint read left.
C18_ReduceFailFast ==
    \A k \in 1..Len(calls) :
        calls[k].state = "failed" =>
            /\ k = Len(calls)
            /\ pc = "done"
            /\ outcome = "failure"
            /\ WritesAfterRead = 0
            /\ file = fileAfterRead

---------------------------------------------------------------------------
(* C19: what the checkpoint promises. *)

\* C19: at the end of every run, when every page created or edited between
\* runs got an updated after the checkpoint persisted at that time, every
\* page of the run's exported snapshot that is not private and whose updated
\* is after 1745842021 and not after the number in last_import.txt was in
\* an importPages call that succeeded, in this run or in one before.
C19_CheckpointCoversImported ==
    (pc = "done" /\ file.exists) =>
        LET c == parseInt(file.content)
        IN  c.kind = "int" =>
                \A k \in 1..Len(pages) :
                    (/\ INITIAL_IMPORT_TIME < pages[k].updated
                     /\ pages[k].updated <= c.val
                     /\ ~HasMarker(pages[k])) =>
                        \E j \in 1..Len(imported) : imported[j] = pages[k]

\* a second run has succeeded after a first that succeeded: it exported a
\* page the first run imported and a page created or edited since
C19_Witness ==
    /\ pc = "done"
    /\ outcome = "success"
    /\ prev.outcome = "success"
    /\ prev.newPages # <<>>
    /\ newPages # <<>>
    /\ \E k \in 1..Len(pages) :
          /\ pages[k] = prev.newPages[1]
          /\ \A j \in 1..Len(newPages) : newPages[j] # pages[k]

---------------------------------------------------------------------------
(* C20: a batch size that is not above 0. *)

\* C20: processBatchesEffect on a list of items that is not empty and a
\* batch size of 0 or less ends with an error; it never ends with success
\* having handed fewer than all the items to processFunc.
C20_NonPositiveBatchSizeFails ==
    (result.done /\ items # <<>> /\ batchSize <= 0) =>
        /\ result.outcome = "error"
        /\ ~(result.outcome = "success" /\ result.passed # items)

===========================================================================
